---- MODULE Spec2Model ----
(***************************************************************************)
(* Model of the HTTP request dispatcher, the session registry, the         *)
(* per-request identity threading, the startup of main() and the           *)
(* authenticators of the Azure DevOps MCP server                           *)
(* (src/src/index.ts lines 1-239, src/src/auth.ts lines 1-138).            *)
(*                                                                         *)
(* One handler invocation is split at its await points: everything between *)
(* two awaits of a handler runs as one action, because the process is a    *)
(* single-threaded event loop.  The transport of the MCP SDK is not part   *)
(* of the repository; it is modelled by the callbacks the repository hands *)
(* to it: a handshake frame makes it generate a session id and call        *)
(* onsessioninitialized, a DELETE frame makes it close and call onclose.   *)
(***************************************************************************)
EXTENDS Integers, Sequences, FiniteSets, TLC

\* ------------------------------------------------------------- bounds
\* Request handlers that may be in flight at the same time.
MaxReqs == 2
\* Transports (handshakes) the process may construct.
MaxSessions == 2
\* Calls of the authenticator that may be in progress at the same time.
MaxCalls == 2
\* Transports the process may construct where only the transient token is
\* followed.
MaxTokenSessions == 1

Reqs == 1..MaxReqs
Conns == 1..MaxSessions
Uuids == 1..MaxSessions
Calls == 1..MaxCalls

\* ------------------------------------------------------------- values
\* req.headers["mcp-session-id"] when the header is absent (undefined).
NoSid == 0
\* A header value that names a property every plain object inherits
\* ("constructor", "toString", "__proto__", ...).
ProtoKey == -1
\* A header value that is neither a generated id nor an inherited property.
UnknownKey == -2
\* transports[k] when there is no such property (undefined).
NoConn == 0
\* transports[k] for an inherited property: a truthy value that is not a
\* transport and has no handleRequest method.
ProtoObject == -1

\* JavaScript undefined, for a token or an assertion.
Undefined == "undefined"
\* A request that has not acquired a token.
NoAcq == "noacq"
\* A rejected acquire (an Error thrown by the authenticator).
AuthError == "AuthError"
Tokens == {"a", "b"}

\* --authentication choices that reach the HTTP dispatcher.
Modes == {"external", "obo", "env"}
\* Every --authentication choice.
AuthTypes == Modes \cup {"interactive", "azcli"}
\* The --transport choices.
Transports == {"stdio", "http"}
\* An environment variable or an option: unset, the empty string, or a value.
EnvValues == {Undefined, "", "set"}
\* --tenant: unset or a tenant id.
TenantValues == {Undefined, "t"}
\* this.accountId of the interactive authenticator while it is null.
NoAccount == "null"
\* What a caller passes to the authenticator as userAssertion.
Assertions == {Undefined, ""} \cup Tokens
\* The credential sources of the service chain.
Sources == {"azcli", "default"}

\* The Authorization header, as the words String.split(" ") yields; <<>>
\* stands for an absent header.
NoHeader == <<>>
AuthHeaders == {NoHeader, <<"Bearer">>, <<"Bearer", "a">>, <<"Bearer", "b">>}
Bodies == {"initialize", "tools/call"}

\* ------------------------------------------------------------ helpers
\* JavaScript truthiness of an optional string.
Truthy(x) == x # Undefined /\ x # ""

\* req.headers["authorization"]?.split(" ")[1]
BearerOf(h) == IF h = NoHeader \/ Len(h) < 2 THEN Undefined ELSE h[2]

\* isInitializeBody(body)
isInitializeBody(body) == body = "initialize"

\* transports[sessionId] on a plain object: own properties are the generated
\* ids, and inherited properties are found too.
Lookup(reg, sid) ==
    IF sid \in DOMAIN reg THEN reg[sid]
    ELSE IF sid = ProtoKey THEN ProtoObject
    ELSE NoConn

\* sessionId && transports[sessionId]
HasTransport(reg, sid) == sid # NoSid /\ Lookup(reg, sid) # NoConn

\* The three-way branch of the POST handler.
PostRouteNoIdCheck(reg, sid, body) ==
    IF HasTransport(reg, sid) THEN "CONTINUE"
    ELSE IF isInitializeBody(body) THEN "ESTABLISH"
    ELSE "REJECT"

PostRouteInitFirst(reg, sid, body) ==
    IF isInitializeBody(body) THEN "ESTABLISH"
    ELSE IF HasTransport(reg, sid) THEN "CONTINUE"
    ELSE "REJECT"

PostRoute(reg, sid, body) ==
    IF HasTransport(reg, sid) THEN "CONTINUE"
    ELSE IF sid = NoSid /\ isInitializeBody(body) THEN "ESTABLISH"
    ELSE "REJECT"

\* sessionIdGenerator: crypto.randomUUID() never repeats a value; n ids have
\* been generated so far.
ConstantSessionId(n) == 1

sessionIdGenerator(n) == n + 1

\* The finally block of the POST handler.
FinallyToken(m, tok) == IF m = "obo" THEN Undefined ELSE tok

\* The wrapped authenticator: which assertion the backend is called with.
Forwarded(assertion, extTok) ==
    IF Truthy(assertion) THEN assertion
    ELSE IF Truthy(extTok) THEN extTok
    ELSE Undefined

\* The identity a backend call consumes: tokenProvider reads the shared
\* externalToken, the OBO backend its argument, the credential chain nothing.
Consumed(m, assertion, extTok) ==
    IF m = "external" THEN (IF Truthy(extTok) THEN extTok ELSE Undefined)
    ELSE IF m = "obo" THEN Forwarded(assertion, extTok)
    ELSE Undefined

\* The token an on-behalf-of exchange issues for an assertion.
Exchanged(a) == IF a = "a" THEN "obo-a" ELSE "obo-b"

\* The results a backend call can have; upstream calls may fail.
BackendResults(m, assertion, extTok) ==
    IF m = "external"
    THEN (IF Truthy(extTok) THEN {extTok} ELSE {AuthError})
    ELSE IF m = "obo"
    THEN (IF Truthy(Forwarded(assertion, extTok))
          THEN {Exchanged(Forwarded(assertion, extTok)), AuthError}
          ELSE {AuthError})
    ELSE {"svc", AuthError}

\* tokenProvider: returns the shared transient token, whatever argument the
\* wrapped authenticator hands it.
tokenProviderUsesArgument(arg, extTok) ==
    IF ~Truthy(arg) THEN AuthError ELSE arg

tokenProvider(arg, extTok) == IF ~Truthy(extTok) THEN AuthError ELSE extTok

\* The closure createAuthenticator("external") returns.
ExternalBackendExchanges(assertion) ==
    IF ~Truthy(assertion) THEN AuthError ELSE Exchanged(assertion)

ExternalBackend(assertion) == IF ~Truthy(assertion) THEN AuthError ELSE assertion

\* The closure createAuthenticator("obo") returns issues an exchange only
\* for a truthy assertion.
OboBackendAlwaysStarts(assertion) == TRUE

OboBackendStarts(assertion) == Truthy(assertion)

\* getTokenOnBehalfOf: the access token of the exchange result, or an Error
\* when the result or its access token is missing.
OboResultPassthrough(out, assertion) == assertion

OboResult(out, assertion) ==
    IF out = "token" THEN Exchanged(assertion) ELSE AuthError

\* The credential createAuthenticator("azcli" | "env") builds, as the
\* sources it tries in order.
ChainOf(type, tenant) ==
    IF Truthy(tenant) /\ type = "azcli" THEN <<"azcli", "default">>
    ELSE <<"default">>

\* The token a credential source yields.
SourceToken(src) == IF src = "azcli" THEN "tok-azcli" ELSE "tok-default"

\* credential.getToken: the token of the first source of the chain that
\* yields one, or an Error when none does.
RECURSIVE FirstToken(_, _)
FirstToken(chain, yields) ==
    IF chain = <<>> THEN AuthError
    ELSE IF Head(chain) \in yields THEN SourceToken(Head(chain))
    ELSE FirstToken(Tail(chain), yields)

\* The on-behalf-of checks of main() and of createAuthenticator("obo").
MissingOboClientIdOnly(m, id, secret) == m = "obo" /\ ~Truthy(id)

MissingOboCredentials(m, id, secret) ==
    m = "obo" /\ (~Truthy(id) \/ ~Truthy(secret))

\* -------------------------------------------------------------- state
VARIABLES
    mode,           \* argv.authentication
    externalToken,  \* the shared transient token of main()
    transports,     \* the session registry: generated id -> transport
    sessionId,      \* transport.sessionId of each constructed transport
    closed,         \* transports that have signalled close
    nextConn,       \* transports constructed so far
    minted,         \* ids generated so far
    req,            \* the handler invocations: in flight, or just returned
    boot,           \* the options and environment of the process, and how
                    \* far main() has come
    accountId,      \* OAuthAuthenticator.accountId
    call            \* the authenticator calls: in progress, or just returned

vars == <<mode, externalToken, transports, sessionId, closed, nextConn, minted, req,
          boot, accountId, call>>

\* What the HTTP handlers never touch.
providerVars == <<boot, accountId, call>>
\* What main() and the authenticator never touch.
dispatcherVars == <<transports, sessionId, closed, nextConn, minted, req>>

\* A handler slot holds one invocation of a handler: its inputs (the verb,
\* the mcp-session-id header, the body's method, the bearer value of the
\* Authorization header), where it is suspended, the transport it holds, the
\* response it gave, and the latest token acquisition made on its behalf.
\* pc = "done" marks the invocation whose handler has just returned.
IdleReq ==
    [pc |-> "idle", verb |-> "none", sid |-> NoSid, body |-> "none",
     bearer |-> Undefined, conn |-> NoConn, outcome |-> "none",
     src |-> NoAcq, tok |-> NoAcq]

\* An authenticator call slot: how it was called (through the wrapped
\* authenticator of main(), or the closure of createAuthenticator directly),
\* the caller's assertion, the assertion the backend received, the identity
\* the backend acted on, how the silent acquisition went, how many times the
\* interactive flow and how many upstream calls were started, which credential
\* sources were able to yield a token, and the result.
IdleCall ==
    [pc |-> "idle", via |-> "none", assertion |-> Undefined,
     received |-> Undefined, acted |-> Undefined, silent |-> "none",
     inter |-> 0, net |-> 0, yields |-> {}, result |-> NoAcq]

\* main() has reached app.listen with credentials in the environment.
Listening ==
    [transport |-> "http", tenant |-> Undefined, clientId |-> "set",
     clientSecret |-> "set", credsValid |-> TRUE, phase |-> "listening",
     exit |-> "none"]

\* No request has been handled yet.
InitDispatcher ==
    /\ transports = [k \in Uuids |-> NoConn]
    /\ sessionId = [c \in Conns |-> NoSid]
    /\ closed = [c \in Conns |-> FALSE]
    /\ nextConn = 0
    /\ minted = 0
    /\ req = [r \in Reqs |-> IdleReq]

\* No authenticator call has been made yet.
InitProvider ==
    /\ accountId = NoAccount
    /\ call = [c \in Calls |-> IdleCall]

Init ==
    /\ mode \in Modes
    /\ externalToken = Undefined
    /\ InitDispatcher
    /\ boot = Listening
    /\ InitProvider

\* Header values a client can send: nothing, an id that has been generated,
\* or a string that is no generated id.
ClientSids == (0..minted) \cup {ProtoKey, UnknownKey}

\* An invocation in flight is suspended at an await of the handler, or in
\* the token acquisition of the tool it runs.
InFlight(r) == req[r].pc \in {"connecting", "handling", "silent", "login"}

\* The event loop runs a handler turn to its end: the invocation that has
\* just returned is dropped before the next event is dispatched.
Dispatching == \A q \in Reqs : req[q].pc # "done"

\* The slot a new invocation takes: the first free one.  The slots list the
\* invocations in flight in the order of their arrival.
Free(r) ==
    /\ Dispatching
    /\ req[r].pc = "idle"
    /\ \A q \in Reqs : q < r => InFlight(q)

\* The slots after rec has taken slot r.
Placed(rq, r, rec) == [rq EXCEPT ![r] = rec]

\* The event that resumes invocation r, suspended at an await, is dispatched.
ResumedUnlessLogin(r, at) ==
    /\ \A q \in Reqs : req[q].pc # "done"
    /\ req[r].pc = at
    /\ \A q \in Reqs : req[q].pc # "login"

Resumed(r, at) == Dispatching /\ req[r].pc = at

\* The inputs of a new invocation.  Only the POST handler reads the
\* Authorization header, and only in external and on-behalf-of mode.
ArrivedHoldingTransport(verb, sid, body, auth) ==
    [IdleReq EXCEPT !.verb = verb, !.sid = sid, !.body = body,
                    !.bearer = IF verb = "POST" /\ mode \in {"external", "obo"}
                               THEN BearerOf(auth) ELSE Undefined,
                    !.conn = Lookup(transports, sid)]

Arrived(verb, sid, body, auth) ==
    [IdleReq EXCEPT !.verb = verb, !.sid = sid, !.body = body,
                    !.bearer = IF verb = "POST" /\ mode \in {"external", "obo"}
                               THEN BearerOf(auth) ELSE Undefined]

\* ------------------------------------------------- registry callbacks
\* onsessioninitialized: transports[sessionId] = transport
OnSessionInitializedFirstKey(reg, id, c) == [reg EXCEPT ![1] = c]

OnSessionInitialized(reg, id, c) == [reg EXCEPT ![id] = c]

\* transport.onclose: if (transport.sessionId) delete transports[...]
OnCloseKeepsEntry(reg, id) == reg

OnCloseClearsRegistry(reg, id) == [k \in DOMAIN reg |-> NoConn]

OnClose(reg, id) == IF id # NoSid THEN [reg EXCEPT ![id] = NoConn] ELSE reg

\* ------------------------------------------------- POST /mcp handler
\* externalToken after the identity extraction of a POST.
ExtractedToken(m, auth, tok) ==
    IF m \in {"external", "obo"} THEN BearerOf(auth) ELSE tok

\* The on-behalf-of branch answers 400 before any routing.
OboNeverMissing(m, auth) == FALSE

OboMissing(m, auth) == m = "obo" /\ ~Truthy(BearerOf(auth))

\* obo without a bearer value: res.status(400).json({error: ...}); return
PostOboReject(r, sid, body, auth) ==
    /\ OboMissing(mode, auth)
    /\ LET rec == [Arrived("POST", sid, body, auth) EXCEPT
                      !.pc = "done", !.outcome = "obo400"]
       IN  req' = Placed(req, r, rec)
    /\ UNCHANGED <<mode, externalToken, transports, sessionId, closed, nextConn, minted>>

\* REJECT: 400 with JSON-RPC error -32000 and id null; return
PostReject(r, sid, body, auth) ==
    /\ ~OboMissing(mode, auth)
    /\ PostRoute(transports, sid, body) = "REJECT"
    /\ externalToken' = ExtractedToken(mode, auth, externalToken)
    /\ LET rec == [Arrived("POST", sid, body, auth) EXCEPT
                      !.pc = "done", !.outcome = "rej32000"]
       IN  req' = Placed(req, r, rec)
    /\ UNCHANGED <<mode, transports, sessionId, closed, nextConn, minted>>

\* CONTINUE: transport = transports[sessionId]; transport.handleRequest(...)
\* is called in the try block.  A value that is no transport has no
\* handleRequest: the call throws a TypeError, and the finally block runs.
PostContinue(r, sid, body, auth) ==
    /\ ~OboMissing(mode, auth)
    /\ PostRoute(transports, sid, body) = "CONTINUE"
    /\ IF Lookup(transports, sid) = ProtoObject
       THEN /\ externalToken' =
                  FinallyToken(mode, ExtractedToken(mode, auth, externalToken))
            /\ LET rec == [Arrived("POST", sid, body, auth) EXCEPT
                              !.pc = "done", !.outcome = "threw"]
               IN  req' = Placed(req, r, rec)
       ELSE /\ externalToken' = ExtractedToken(mode, auth, externalToken)
            /\ LET rec == [Arrived("POST", sid, body, auth) EXCEPT
                              !.pc = "handling", !.conn = Lookup(transports, sid)]
               IN  req' = Placed(req, r, rec)
    /\ UNCHANGED <<mode, transports, sessionId, closed, nextConn, minted>>

\* ESTABLISH: construct a transport, bind onclose, await server.connect
PostEstablish(r, sid, body, auth) ==
    /\ ~OboMissing(mode, auth)
    /\ PostRoute(transports, sid, body) = "ESTABLISH"
    /\ nextConn < MaxSessions
    /\ externalToken' = ExtractedToken(mode, auth, externalToken)
    /\ nextConn' = nextConn + 1
    /\ LET rec == [Arrived("POST", sid, body, auth) EXCEPT
                      !.pc = "connecting", !.conn = nextConn + 1]
       IN  req' = Placed(req, r, rec)
    /\ UNCHANGED <<mode, transports, sessionId, closed, minted>>

\* app.post("/mcp"): the handler up to its first await, for a request whose
\* Authorization header is one of headers.
PostArriveFrom(r, headers) ==
    /\ Free(r)
    /\ \E sid \in ClientSids, body \in Bodies, auth \in headers :
          \/ PostOboReject(r, sid, body, auth)
          \/ PostReject(r, sid, body, auth)
          \/ PostContinue(r, sid, body, auth)
          \/ PostEstablish(r, sid, body, auth)
    /\ UNCHANGED providerVars

PostArrive(r) == PostArriveFrom(r, AuthHeaders)

\* server.connect resolved; transport.handleRequest receives the handshake.
\* The transport generates the session id, stores it and calls
\* onsessioninitialized, unless it refuses the frame (a bad Accept header, for
\* one) and no session is established.
ConnectDone(r) ==
    /\ Resumed(r, "connecting")
    /\ \E accepted \in BOOLEAN :
          IF accepted
          THEN /\ sessionId' = [sessionId EXCEPT
                     ![req[r].conn] = sessionIdGenerator(minted)]
               /\ minted' = minted + 1
               /\ transports' = OnSessionInitialized(transports,
                     sessionIdGenerator(minted), req[r].conn)
          ELSE UNCHANGED <<sessionId, minted, transports>>
    /\ req' = [req EXCEPT ![r].pc = "handling"]
    /\ UNCHANGED <<mode, externalToken, closed, nextConn>>
    /\ UNCHANGED providerVars

\* server.connect rejected: the handler throws before its try block.
ConnectThrow(r) ==
    /\ Resumed(r, "connecting")
    /\ req' = [req EXCEPT ![r].pc = "done", ![r].outcome = "threw"]
    /\ UNCHANGED <<mode, externalToken, transports, sessionId, closed, nextConn, minted>>
    /\ UNCHANGED providerVars

\* A tool run by a POST frame asks for an org-API client: the wrapped
\* authenticator is called with no explicit assertion, and a client is
\* constructed when it returns a token.
Acquire(r) ==
    /\ Resumed(r, "handling")
    /\ req[r].verb = "POST"
    /\ req[r].body = "tools/call"
    /\ \E res \in BackendResults(mode, Undefined, externalToken) :
          req' = [req EXCEPT
                     ![r].src = Consumed(mode, Undefined, externalToken),
                     ![r].tok = res]
    /\ UNCHANGED <<mode, externalToken, transports, sessionId, closed, nextConn, minted>>
    /\ UNCHANGED providerVars

\* transport.handleRequest settled (thrown: it rejected); a POST handler
\* then runs its finally block.
HandleSettled(r, thrown) ==
    /\ Resumed(r, "handling")
    /\ externalToken' = IF req[r].verb = "POST"
                        THEN FinallyToken(mode, externalToken)
                        ELSE externalToken
    /\ req' = [req EXCEPT ![r].pc = "done",
                  ![r].outcome = IF thrown THEN "threw" ELSE "handled"]
    /\ UNCHANGED <<mode, transports, sessionId, closed, nextConn, minted>>
    /\ UNCHANGED providerVars

HandleReturn(r) == HandleSettled(r, FALSE)

HandleThrow(r) == HandleSettled(r, TRUE)

\* ---------------------------------------- GET and DELETE /mcp handler
\* handleSessionRequest up to its await.  A DELETE frame makes the transport
\* close itself, which calls onclose.
handleSessionRequest(r) ==
    /\ Free(r)
    /\ \E verb \in {"GET", "DELETE"}, sid \in ClientSids :
          LET rec == IF ~HasTransport(transports, sid)
                     THEN [Arrived(verb, sid, "none", NoHeader) EXCEPT
                              !.pc = "done", !.outcome = "plain400"]
                     ELSE IF Lookup(transports, sid) = ProtoObject
                     THEN [Arrived(verb, sid, "none", NoHeader) EXCEPT
                              !.pc = "done", !.outcome = "threw"]
                     ELSE [Arrived(verb, sid, "none", NoHeader) EXCEPT
                              !.pc = "handling", !.conn = Lookup(transports, sid)]
          IN  /\ req' = Placed(req, r, rec)
              /\ IF rec.pc = "handling" /\ verb = "DELETE"
                 THEN /\ closed' = [closed EXCEPT ![rec.conn] = TRUE]
                      /\ transports' = OnClose(transports, sessionId[rec.conn])
                 ELSE UNCHANGED <<transports, closed>>
    /\ UNCHANGED <<mode, externalToken, sessionId, nextConn, minted>>
    /\ UNCHANGED providerVars

\* The handler has returned (or thrown): its invocation is gone.
Returned(r) ==
    /\ req[r].pc = "done"
    /\ req' = [q \in Reqs |-> IF q < r THEN req[q]
                              ELSE IF q + 1 \in Reqs THEN req[q + 1]
                              ELSE IdleReq]
    /\ UNCHANGED <<mode, externalToken, transports, sessionId, closed, nextConn, minted>>
    /\ UNCHANGED providerVars

Next ==
    \E r \in Reqs :
        \/ PostArrive(r)
        \/ ConnectDone(r)
        \/ ConnectThrow(r)
        \/ Acquire(r)
        \/ HandleReturn(r)
        \/ HandleThrow(r)
        \/ handleSessionRequest(r)
        \/ Returned(r)

Spec == Init /\ [][Next]_vars

\* The session lifecycle on its own: the same handlers, without the tools'
\* token acquisitions, and with the clients' Authorization headers narrowed
\* to what routing reads: whether an on-behalf-of POST carries a bearer value.
\* In the other modes no branch of a handler depends on the header.
SessionHeaders == IF mode = "obo" THEN {NoHeader, <<"Bearer", "a">>} ELSE {NoHeader}

PostArriveSession(r) == PostArriveFrom(r, SessionHeaders)

NextSessions ==
    \E r \in Reqs :
        \/ PostArriveSession(r)
        \/ ConnectDone(r)
        \/ ConnectThrow(r)
        \/ HandleReturn(r)
        \/ HandleThrow(r)
        \/ handleSessionRequest(r)
        \/ Returned(r)

SpecSessions == Init /\ [][NextSessions]_vars

\* The transient token in external mode on its own: the same handlers in
\* external mode, without the tools' token acquisitions, for clients that
\* send no Authorization header or the bearer value "a", and with at most
\* MaxTokenSessions handshakes.
TokenHeaders == {NoHeader, <<"Bearer", "a">>}

InitTokens == Init /\ mode = "external"

PostArriveToken(r) ==
    PostArriveFrom(r, TokenHeaders) /\ nextConn' <= MaxTokenSessions

NextTokens ==
    \E r \in Reqs :
        \/ PostArriveToken(r)
        \/ ConnectDone(r)
        \/ ConnectThrow(r)
        \/ HandleReturn(r)
        \/ HandleThrow(r)
        \/ handleSessionRequest(r)
        \/ Returned(r)

SpecTokens == InitTokens /\ [][NextTokens]_vars

\* ------------------------------------------- interactive login of a tool
\* The handlers in interactive mode, where a tool run by a POST frame awaits
\* OAuthAuthenticator.getToken: the silent acquisition when an account is
\* cached, and the interactive login, which ends only when the user acts.
\* The handlers do not read the Authorization header in this mode.
InitLogin ==
    /\ mode = "interactive"
    /\ externalToken = Undefined
    /\ InitDispatcher
    /\ boot = Listening
    /\ InitProvider

PostArriveLogin(r) == PostArriveFrom(r, {NoHeader})

\* getToken up to its first await, called by the tool of a POST frame.  The
\* token it returns goes to the tool and is not kept in the invocation.
ToolGetToken(r) ==
    /\ Resumed(r, "handling")
    /\ req[r].verb = "POST"
    /\ req[r].body = "tools/call"
    /\ req' = [req EXCEPT ![r].pc = IF accountId # NoAccount THEN "silent"
                                    ELSE "login"]
    /\ UNCHANGED <<mode, externalToken, transports, sessionId, closed, nextConn, minted>>
    /\ UNCHANGED providerVars

\* acquireTokenSilent settled for the tool of invocation r.
ToolSilentSettled(r) ==
    /\ Resumed(r, "silent")
    /\ \E out \in {"threw", "token", "empty"} :
          req' = [req EXCEPT
                     ![r].pc = IF out = "threw" THEN "login" ELSE "handling"]
    /\ UNCHANGED <<mode, externalToken, transports, sessionId, closed, nextConn, minted>>
    /\ UNCHANGED providerVars

\* acquireTokenInteractive settled for the tool of invocation r: the user
\* completed or abandoned the login.
ToolLoginSettled(r) ==
    /\ Resumed(r, "login")
    /\ \E thrown \in BOOLEAN, account \in {NoAccount, "acct"} :
          /\ accountId' = IF thrown THEN accountId ELSE account
          /\ req' = [req EXCEPT ![r].pc = "handling"]
    /\ UNCHANGED <<mode, externalToken, transports, sessionId, closed, nextConn, minted>>
    /\ UNCHANGED <<boot, call>>

NextLogin ==
    \E r \in Reqs :
        \/ PostArriveLogin(r)
        \/ ConnectDone(r)
        \/ ConnectThrow(r)
        \/ ToolGetToken(r)
        \/ ToolSilentSettled(r)
        \/ ToolLoginSettled(r)
        \/ HandleReturn(r)
        \/ HandleThrow(r)
        \/ handleSessionRequest(r)
        \/ Returned(r)

SpecLogin == InitLogin /\ [][NextLogin]_vars

\* ------------------------------------------------------------ startup
\* The module has been loaded and main() is suspended at await
\* getOrgTenant(orgName): nothing has been selected or started yet.
InitStartup ==
    /\ mode \in AuthTypes
    /\ externalToken = Undefined
    /\ InitDispatcher
    /\ boot \in [transport : Transports, tenant : TenantValues,
                 clientId : EnvValues, clientSecret : EnvValues,
                 credsValid : {TRUE}, phase : {"tenant"}, exit : {"none"}]
    /\ InitProvider

\* main().catch: console.error(...); process.exit(1)
Fatal(b) == [b EXCEPT !.phase = "exited", !.exit = "1"]

\* getOrgTenant settled and main() runs on to its next await or its end: it
\* selects the authenticator, configures the tools and starts the transport.
\* A rejection of getOrgTenant and the Error of the on-behalf-of check both
\* reject main().
OrgTenantSettled ==
    /\ boot.phase = "tenant"
    /\ \E thrown \in BOOLEAN :
          boot' = IF thrown
                     \/ MissingOboCredentials(mode, boot.clientId, boot.clientSecret)
                  THEN Fatal(boot)
                  ELSE IF boot.transport = "http"
                  THEN [boot EXCEPT !.phase = "listening"]
                  ELSE [boot EXCEPT !.phase = "connecting"]
    /\ UNCHANGED <<mode, externalToken, accountId, call>>
    /\ UNCHANGED dispatcherVars

\* await server.connect(new StdioServerTransport()) settled.
StdioConnectSettled ==
    /\ boot.phase = "connecting"
    /\ \E thrown \in BOOLEAN :
          boot' = IF thrown THEN Fatal(boot) ELSE [boot EXCEPT !.phase = "stdio"]
    /\ UNCHANGED <<mode, externalToken, accountId, call>>
    /\ UNCHANGED dispatcherVars

NextStartup == OrgTenantSettled \/ StdioConnectSettled

\* A pending promise of main() settles: the lookup and the connect end with
\* a result or an error.
SpecStartup ==
    InitStartup /\ [][NextStartup]_vars /\ WF_vars(NextStartup)

\* ------------------------------------------- the authentication provider
\* The process serves requests: main() got through.  The transient token is
\* what the POST handlers left in it, which in HTTP transport and external or
\* on-behalf-of mode is any bearer value or nothing.
Serving == boot.phase \in {"listening", "stdio"}

InitAuth ==
    /\ mode \in AuthTypes
    /\ boot \in {b \in [transport : Transports, tenant : TenantValues,
                        clientId : {"set"}, clientSecret : {"set"},
                        credsValid : BOOLEAN,
                        phase : {"listening", "stdio"}, exit : {"none"}] :
                    /\ (b.phase = "listening") <=> (b.transport = "http")
                    /\ mode # "obo" => b.credsValid}
    /\ externalToken \in IF boot.transport = "http" /\ mode \in {"external", "obo"}
                         THEN Tokens \cup {Undefined} ELSE {Undefined}
    /\ InitDispatcher
    /\ InitProvider

\* A call that has just returned is dropped before the next event.
Calling == \A c \in Calls : call[c].pc # "done"

FreeCall(c) ==
    /\ Serving
    /\ Calling
    /\ call[c].pc = "idle"
    /\ \A d \in Calls : d < c => call[d].pc # "idle"

ResumedCall(c, at) == Calling /\ call[c].pc = at

\* The assertion the backend is called with: the wrapped authenticator of
\* main() resolves it, a direct call of the closure passes the caller's.
Received(via, assertion) ==
    IF via = "wrapped" THEN Forwarded(assertion, externalToken) ELSE assertion

\* The call up to its first await.
Started(via, assertion) ==
    LET received == Received(via, assertion)
        base == [IdleCall EXCEPT !.via = via, !.assertion = assertion,
                                 !.received = received]
    IN  IF mode = "external"
        THEN IF via = "wrapped"
             THEN [base EXCEPT !.pc = "done",
                      !.acted = Consumed(mode, assertion, externalToken),
                      !.result = tokenProvider(received, externalToken)]
             ELSE [base EXCEPT !.pc = "done",
                      !.acted = IF Truthy(received) THEN received ELSE Undefined,
                      !.result = ExternalBackend(received)]
        ELSE IF mode = "obo"
        THEN IF OboBackendStarts(received)
             THEN [base EXCEPT !.pc = "exchange", !.acted = received, !.net = 1]
             ELSE [base EXCEPT !.pc = "done", !.result = AuthError]
        ELSE IF mode \in {"azcli", "env"}
        THEN [base EXCEPT !.pc = "chain", !.net = 1]
        ELSE IF accountId # NoAccount
        THEN [base EXCEPT !.pc = "silent", !.net = 1]
        ELSE [base EXCEPT !.pc = "interactive", !.inter = 1, !.net = 1]

\* A tool, or the org-API client factory, calls the authenticator.
AcquireCall(c) ==
    /\ FreeCall(c)
    /\ \E via \in {"wrapped", "direct"}, assertion \in Assertions :
          call' = [call EXCEPT ![c] = Started(via, assertion)]
    /\ UNCHANGED <<mode, externalToken, boot, accountId>>
    /\ UNCHANGED dispatcherVars

\* acquireTokenSilent settled: it threw (authResult = null, and the
\* interactive flow starts), or it resolved with a result that carries an
\* access token or none.
SilentSettled(c) ==
    /\ ResumedCall(c, "silent")
    /\ \E out \in {"threw", "token", "empty"} :
          call' = [call EXCEPT ![c] =
             IF out = "threw"
             THEN [@ EXCEPT !.pc = "interactive", !.silent = out,
                            !.inter = @ + 1, !.net = @ + 1]
             ELSE [@ EXCEPT !.pc = "done", !.silent = out,
                            !.result = IF out = "token" THEN "tok-silent"
                                       ELSE AuthError]]
    /\ UNCHANGED <<mode, externalToken, boot, accountId>>
    /\ UNCHANGED dispatcherVars

\* acquireTokenInteractive settled: it threw, or it resolved with a result
\* whose account may be null and whose access token may be empty.
InteractiveSettled(c) ==
    /\ ResumedCall(c, "interactive")
    /\ \E thrown \in BOOLEAN, account \in {NoAccount, "acct"},
          token \in {"", "tok-interactive"} :
          IF thrown
          THEN /\ call' = [call EXCEPT ![c].pc = "done", ![c].result = AuthError]
               /\ UNCHANGED accountId
          ELSE /\ accountId' = account
               /\ call' = [call EXCEPT ![c].pc = "done",
                              ![c].result = IF Truthy(token) THEN token
                                            ELSE AuthError]
    /\ UNCHANGED <<mode, externalToken, boot>>
    /\ UNCHANGED dispatcherVars

\* acquireTokenOnBehalfOf settled; with service credentials the identity
\* provider refuses it can only fail.
ExchangeSettled(c) ==
    /\ ResumedCall(c, "exchange")
    /\ \E out \in IF boot.credsValid THEN {"threw", "null", "token"}
                  ELSE {"threw"} :
          call' = [call EXCEPT ![c].pc = "done",
                      ![c].result = IF out = "threw" THEN AuthError
                                    ELSE OboResult(out, call[c].received)]
    /\ UNCHANGED <<mode, externalToken, boot, accountId>>
    /\ UNCHANGED dispatcherVars

\* credential.getToken settled, with yields the sources that were able to
\* give a token.
ChainSettled(c) ==
    /\ ResumedCall(c, "chain")
    /\ \E yields \in SUBSET Sources :
          call' = [call EXCEPT ![c].pc = "done", ![c].yields = yields,
                      ![c].result = FirstToken(ChainOf(mode, boot.tenant), yields)]
    /\ UNCHANGED <<mode, externalToken, boot, accountId>>
    /\ UNCHANGED dispatcherVars

\* The call has returned (or thrown) to its caller.
CallReturned(c) ==
    /\ call[c].pc = "done"
    /\ call' = [d \in Calls |-> IF d < c THEN call[d]
                                ELSE IF d + 1 \in Calls THEN call[d + 1]
                                ELSE IdleCall]
    /\ UNCHANGED <<mode, externalToken, boot, accountId>>
    /\ UNCHANGED dispatcherVars

NextAuth ==
    \E c \in Calls :
        \/ AcquireCall(c)
        \/ SilentSettled(c)
        \/ InteractiveSettled(c)
        \/ ExchangeSettled(c)
        \/ ChainSettled(c)
        \/ CallReturned(c)

SpecAuth == InitAuth /\ [][NextAuth]_vars

\* ------------------------------------------------------------- claims
\* An id is in the registry when the registry holds a transport under it.
InRegistry(reg, sid) == sid \in DOMAIN reg /\ reg[sid] # NoConn

\* Invocation r starts in this step, as a handler of the given verbs.
Arrives(r, verbs) ==
    req[r].pc = "idle" /\ req'[r].pc # "idle" /\ req'[r].verb \in verbs

DelegatedMode == mode \in {"external", "obo"}

OthersQuiet(r) == \A q \in Reqs : q # r => ~InFlight(q)

\* C1: in external and on-behalf-of mode every token acquisition made while
\* handling POST R (with no explicit assertion) consumes the bearer value R
\* itself carried, never that of another request.
C1_AcquireUsesOwnBearer ==
    DelegatedMode =>
        \A r \in Reqs :
            (req[r].verb = "POST" /\ req[r].src # NoAcq /\ Truthy(req[r].src))
                => req[r].src = req[r].bearer

\* C2: in every mode and for every outcome of a POST (handled, -32000
\* rejection, an exception), the transient token is empty once the call has
\* finished, provided no other request is in flight.
C2_TokenEmptyAfterCall ==
    \A r \in Reqs :
        (req[r].verb = "POST" /\ req[r].pc = "done" /\ OthersQuiet(r))
            => ~Truthy(externalToken)

\* C3: in external mode a POST without an Authorization bearer never obtains
\* a token: every acquire made while handling it fails with an auth error, so
\* no org-API client is constructed for it.
C3_NoBearerNoToken ==
    mode = "external" =>
        \A r \in Reqs :
            (req[r].verb = "POST" /\ ~Truthy(req[r].bearer))
                => req[r].tok \in {NoAcq, AuthError}

\* C4: in external and on-behalf-of mode the transient token equals R's own
\* bearer value from R's identity extraction until R's response is produced,
\* so an acquire made by R with a valid bearer never lacks an assertion.
C4_TokenStaysOwnWhileInFlight ==
    DelegatedMode =>
        \A r \in Reqs :
            (req[r].verb = "POST" /\ InFlight(r))
                => /\ externalToken = req[r].bearer
                   /\ (Truthy(req[r].bearer) /\ req[r].src # NoAcq)
                          => req[r].src # Undefined

\* C5: a POST with no session id and a non-handshake body, and a POST with a
\* session id that is not in the registry (whatever its body), are rejected
\* with HTTP 400 and JSON-RPC error -32000, and reach no connection.  The
\* statement is taken for the requests that pass the identity extraction,
\* which the handler runs before routing.
Unroutable(reg, sid, body) ==
    \/ sid = NoSid /\ ~isInitializeBody(body)
    \/ sid # NoSid /\ ~InRegistry(reg, sid)

C5_UnroutablePostRejected ==
    [][\A r \in Reqs :
          (/\ Arrives(r, {"POST"})
           /\ ~OboMissing(mode, IF Truthy(req'[r].bearer)
                                THEN <<"Bearer", req'[r].bearer>> ELSE NoHeader)
           /\ Unroutable(transports, req'[r].sid, req'[r].body))
              => /\ req'[r].pc = "done"
                 /\ req'[r].outcome = "rej32000"
                 /\ req'[r].conn = NoConn]_vars

\* C6 as stated: a POST whose session id is in the registry is always routed
\* to the connection registered under that id, whatever its body, and creates
\* no session.
C6_KnownSidAlwaysRouted ==
    [][\A r \in Reqs :
          (Arrives(r, {"POST"}) /\ InRegistry(transports, req'[r].sid))
              => /\ req'[r].pc = "handling"
                 /\ req'[r].conn = transports[req'[r].sid]
                 /\ UNCHANGED <<transports, sessionId, nextConn, minted>>]_vars

\* C6 amended: unless it is an on-behalf-of POST without a bearer value, which
\* is answered 400 before routing and reaches no connection, a POST whose
\* session id is in the registry is routed to the connection registered under
\* that id, whatever its body; in both cases no transport is constructed, no
\* id is generated and the registry does not change.
C6_KnownSidRouted ==
    [][\A r \in Reqs :
          (Arrives(r, {"POST"}) /\ InRegistry(transports, req'[r].sid))
              => /\ IF mode = "obo" /\ ~Truthy(req'[r].bearer)
                    THEN /\ req'[r].pc = "done"
                         /\ req'[r].outcome = "obo400"
                         /\ req'[r].conn = NoConn
                    ELSE /\ req'[r].pc = "handling"
                         /\ req'[r].conn = transports[req'[r].sid]
                 /\ UNCHANGED <<transports, sessionId, nextConn, minted>>]_vars

\* A handshake body with a known session id is being handled by the
\* connection registered under that id.
C6_Witness ==
    \E r \in Reqs :
        /\ req[r].pc = "handling"
        /\ req[r].verb = "POST"
        /\ req[r].body = "initialize"
        /\ req[r].sid # NoSid
        /\ InRegistry(transports, req[r].sid)
        /\ transports[req[r].sid] = req[r].conn

\* C7: a registry entry is added only by a POST handshake (method initialize)
\* that arrived without a session id; no other POST and no GET or DELETE adds
\* an entry.
C7_OnlyHandshakeRegisters ==
    [][\A k \in Uuids :
          (transports'[k] # transports[k] /\ transports'[k] # NoConn)
              => \E r \in Reqs :
                    /\ req[r].verb = "POST"
                    /\ req[r].sid = NoSid
                    /\ req[r].body = "initialize"
                    /\ req[r].pc = "connecting"
                    /\ req'[r].pc = "handling"
                    /\ transports'[k] = req[r].conn]_vars

\* A handshake that arrived without a session id has registered its transport.
C7_Witness ==
    \E r \in Reqs, k \in Uuids :
        /\ req[r].pc = "handling"
        /\ req[r].verb = "POST"
        /\ req[r].sid = NoSid
        /\ req[r].body = "initialize"
        /\ transports[k] = req[r].conn

DeletedIds == {sessionId[c] : c \in {d \in Conns : closed[d]}} \ {NoSid}

C9_DeletedIdStaysRejected ==
    /\ [](\A r \in Reqs :
            (req[r].verb = "DELETE" /\ req[r].conn # NoConn)
                => ~InRegistry(transports, req[r].sid))
    /\ [][\A r \in Reqs :
            (Arrives(r, {"GET", "DELETE", "POST"}) /\ req'[r].sid \in DeletedIds)
                => /\ req'[r].pc = "done"
                   /\ req'[r].conn = NoConn
                   /\ req'[r].outcome =
                         IF req'[r].verb # "POST" THEN "plain400"
                         ELSE IF mode = "obo" /\ ~Truthy(req'[r].bearer)
                              THEN "obo400" ELSE "rej32000"]_vars

\* A GET carrying the id of a deleted session has just been answered 400.
C9_Witness ==
    \E r \in Reqs :
        /\ req[r].verb = "GET"
        /\ req[r].sid \in DeletedIds
        /\ req[r].pc = "done"
        /\ req[r].outcome = "plain400"

\* C10: each handshake gets a fresh session id: no two connections share an
\* id, a connection's id never changes once assigned, and a handshake that
\* registers its connection leaves every other registry entry as it was.
C10_FreshIdsNoClobber ==
    /\ [](\A c, d \in Conns :
            (c # d /\ sessionId[c] # NoSid) => sessionId[c] # sessionId[d])
    /\ [][/\ \A c \in Conns :
                sessionId[c] # NoSid => sessionId'[c] = sessionId[c]
          /\ \A k \in Uuids :
                (transports[k] # NoConn /\ sessionId' # sessionId)
                    => transports'[k] = transports[k]]_vars

\* Two handshakes in flight at the same time have both registered their
\* connections, under different ids.
C10_Witness ==
    \E r, q \in Reqs :
        /\ r # q
        /\ req[r].pc = "handling" /\ req[q].pc = "handling"
        /\ req[r].sid = NoSid /\ req[q].sid = NoSid
        /\ InRegistry(transports, sessionId[req[r].conn])
        /\ InRegistry(transports, sessionId[req[q].conn])
        /\ transports[sessionId[req[r].conn]] = req[r].conn
        /\ transports[sessionId[req[q].conn]] = req[q].conn

\* C11: in on-behalf-of mode a POST without a bearer value is answered 400
\* with the plain error body, not the -32000 protocol error, before routing:
\* whatever its session id and body, no transport is constructed, no id is
\* generated, the registry is unchanged, no connection receives the frame and
\* the transient token is not written.
C11_OboMissingBearerRejected ==
    [][\A r \in Reqs :
          (mode = "obo" /\ Arrives(r, {"POST"}) /\ ~Truthy(req'[r].bearer))
              => /\ req'[r].pc = "done"
                 /\ req'[r].outcome = "obo400"
                 /\ req'[r].conn = NoConn
                 /\ \A q \in Reqs : q # r => req'[q] = req[q]
                 /\ UNCHANGED <<externalToken, transports, sessionId, closed,
                                nextConn, minted>>]_vars

\* An on-behalf-of POST without a bearer value, carrying the id of a
\* registered session, has been answered while another request's token is
\* the transient token.
C11_Witness ==
    \E r \in Reqs :
        /\ mode = "obo"
        /\ req[r].verb = "POST"
        /\ req[r].outcome = "obo400"
        /\ InRegistry(transports, req[r].sid)
        /\ Truthy(externalToken)

\* C12: when on-behalf-of mode is selected and the client id or the client
\* secret is absent from the environment, startup fails: main() never gets to
\* app.listen or to the stdio connection, and the process exits with status 1.
OboCredentialsAbsent ==
    mode = "obo" /\ (~Truthy(boot.clientId) \/ ~Truthy(boot.clientSecret))

C12_OboWithoutCredentialsExits ==
    /\ [](OboCredentialsAbsent
            => boot.phase \notin {"listening", "connecting", "stdio"})
    /\ (OboCredentialsAbsent ~> (boot.phase = "exited" /\ boot.exit = "1"))

\* On-behalf-of startup with the client id set and the client secret empty
\* has ended in exit status 1.
C12_Witness ==
    /\ mode = "obo"
    /\ Truthy(boot.clientId)
    /\ boot.clientSecret = ""
    /\ boot.phase = "exited"
    /\ boot.exit = "1"

\* C13: interactive backend: a call made with a cached account whose silent
\* acquisition gives a token never starts the interactive flow; a call whose
\* silent acquisition fails (it throws, or its result carries no access
\* token) starts the interactive flow exactly once; no call starts it more
\* than once.
C13_InteractiveOncePerCall ==
    mode = "interactive" =>
        \A c \in Calls :
            /\ call[c].inter <= 1
            /\ call[c].silent = "token" => call[c].inter = 0
            /\ call[c].silent \in {"threw", "empty"} => call[c].inter = 1

\* C14: interactive backend, cached account: every failure of the silent
\* path (an exception, or a result without a usable access token) leads to an
\* attempt of the interactive flow, so a call fails only after the interactive
\* flow has been attempted.
C14_SilentFailureFallsBack ==
    mode = "interactive" =>
        \A c \in Calls :
            /\ call[c].silent \in {"threw", "empty"}
                  => (call[c].pc \in {"interactive", "done"} /\ call[c].inter >= 1)
            /\ call[c].result = AuthError => call[c].inter >= 1

\* C15: the wrapped authenticator resolves the identity in a fixed order: an
\* explicit assertion of the caller is what the backend receives and acts on,
\* else the transient token, else nothing; in external mode a call with an
\* explicit assertion returns that assertion, whatever the transient token is.
C15_ExplicitAssertionFirst ==
    \A c \in Calls :
        (call[c].via = "wrapped" /\ call[c].pc # "idle")
            => /\ call[c].received =
                     (IF Truthy(call[c].assertion) THEN call[c].assertion
                      ELSE IF Truthy(externalToken) THEN externalToken
                      ELSE Undefined)
               /\ (DelegatedMode /\ Truthy(call[c].assertion))
                     => call[c].acted = call[c].assertion
               /\ (mode = "external" /\ Truthy(call[c].assertion))
                     => call[c].result = call[c].assertion

\* C16: the external backend of createAuthenticator returns every non-empty
\* assertion unchanged, fails with an auth error when the assertion is
\* absent, and makes no upstream call in either case.
C16_ExternalPassthrough ==
    mode = "external" =>
        \A c \in Calls :
            (call[c].via = "direct" /\ call[c].pc # "idle")
                => /\ call[c].pc = "done"
                   /\ call[c].net = 0
                   /\ call[c].result = IF Truthy(call[c].assertion)
                                       THEN call[c].assertion ELSE AuthError

\* The external backend has returned assertion "a" while the transient token
\* is "b".
C16_Witness ==
    /\ mode = "external"
    /\ externalToken = "b"
    /\ \E c \in Calls :
          /\ call[c].via = "direct"
          /\ call[c].pc = "done"
          /\ call[c].assertion = "a"
          /\ call[c].result = "a"

\* C17: on-behalf-of backend: a call in which the backend receives no
\* assertion fails with an auth error and issues no exchange, whether or not
\* the service credentials are valid and whatever other calls were given.
C17_OboNoAssertionFails ==
    mode = "obo" =>
        \A c \in Calls :
            (call[c].pc # "idle" /\ ~Truthy(call[c].received))
                => /\ call[c].pc = "done"
                   /\ call[c].result = AuthError
                   /\ call[c].net = 0

\* With valid service credentials, and while the exchange of another call's
\* assertion is pending, a call without assertion has failed.
C17_Witness ==
    /\ mode = "obo"
    /\ boot.credsValid
    /\ \E c, d \in Calls :
          /\ call[d].pc = "exchange"
          /\ call[c].pc = "done"
          /\ call[c].via = "wrapped"
          /\ ~Truthy(call[c].assertion)
          /\ call[c].result = AuthError

\* C18: in on-behalf-of mode no token handed to the org-API client factory is
\* an inbound assertion: each is the token an exchange issued, and differs
\* from the bearer value of the request and from the assertion exchanged.
ExchangeTokens == {Exchanged(t) : t \in Tokens}

C18_OboNeverHandsAssertion ==
    mode = "obo" =>
        /\ \A c \in Calls :
              call[c].result \notin {NoAcq, AuthError}
                  => /\ call[c].result \in ExchangeTokens
                     /\ call[c].result \notin Assertions
                     /\ call[c].result # call[c].received
        /\ \A r \in Reqs :
              req[r].tok \notin {NoAcq, AuthError}
                  => /\ req[r].tok \in ExchangeTokens
                     /\ req[r].tok \notin Assertions
                     /\ req[r].tok # req[r].bearer

\* With transient token "a" (a POST carried Bearer a), a call without
\* explicit assertion has returned the token exchanged for "a".
C18_Witness ==
    /\ mode = "obo"
    /\ externalToken = "a"
    /\ \E c \in Calls :
          /\ call[c].via = "wrapped"
          /\ call[c].pc = "done"
          /\ call[c].assertion = Undefined
          /\ call[c].result = Exchanged("a")

\* C19: service chain (azcli and env): the explicit source is in the chain
\* exactly when a tenant id is supplied, before the generic source, so a call
\* returns the token of the first of them that yields one, and fails when
\* none does.
ClaimedChain(tenant) ==
    IF Truthy(tenant) THEN <<"azcli", "default">> ELSE <<"default">>

C19_ExplicitSourceWhenTenant ==
    mode \in {"azcli", "env"} =>
        \A c \in Calls :
            call[c].pc = "done"
                => call[c].result =
                      FirstToken(ClaimedChain(boot.tenant), call[c].yields)

\* C20: the cached account of the interactive backend leaves NoAccount only
\* when an interactive login settles, and once it is cached it never returns
\* to NoAccount.
C20_CachedAccountStays ==
    [][/\ accountId # NoAccount => accountId' # NoAccount
       /\ (accountId = NoAccount /\ accountId' # NoAccount)
             => \E c \in Calls :
                   call[c].pc = "interactive" /\ call'[c].pc = "done"]_vars

\* C21: a registry entry is removed only in the step in which the connection
\* registered under it closes (its onclose callback), each connection closes
\* and has its entry removed exactly once, and no handler removes an entry of
\* a connection that does not close.
C21_RemovedOnlyByOwnClose ==
    [][
       /\ \A k \in Uuids :
             (transports[k] # NoConn /\ transports'[k] = NoConn)
                 => /\ ~closed[transports[k]]
                    /\ closed'[transports[k]]
                    /\ sessionId[transports[k]] = k
       /\ \A c \in Conns :
             closed'[c] # closed[c]
                 => /\ ~closed[c]
                    /\ InRegistry(transports, sessionId[c])
                    /\ ~InRegistry(transports', sessionId[c])
                    /\ \A j \in Uuids :
                          j # sessionId[c] => transports'[j] = transports[j]
       /\ \A c \in Conns : closed[c] => closed'[c]
      ]_vars

\* A DELETE is being handled by a connection that has closed and whose id
\* has left the registry, while another session is still registered.
C21_Witness ==
    \E r \in Reqs, k \in Uuids :
        /\ req[r].verb = "DELETE"
        /\ req[r].pc = "handling"
        /\ closed[req[r].conn]
        /\ ~InRegistry(transports, req[r].sid)
        /\ k # req[r].sid
        /\ transports[k] # NoConn

\* C24: every rejected request (a POST answered -32000, an on-behalf-of POST
\* without user token, a GET or DELETE with an unknown or missing session id)
\* leaves the registry and the connections as they were and reaches no
\* connection.
RejectOutcomes == {"rej32000", "obo400", "plain400"}

C24_RejectionChangesNothing ==
    [][\A r \in Reqs :
          (Arrives(r, {"POST", "GET", "DELETE"})
             /\ req'[r].outcome \in RejectOutcomes)
              => /\ req'[r].pc = "done"
                 /\ req'[r].conn = NoConn
                 /\ UNCHANGED <<transports, sessionId, closed, nextConn, minted>>]_vars

\* A DELETE with an id that is no registered session has been rejected while
\* a session is registered.
C24_Witness ==
    \E r \in Reqs, k \in Uuids :
        /\ req[r].verb = "DELETE"
        /\ req[r].outcome = "plain400"
        /\ req[r].sid = UnknownKey
        /\ transports[k] # NoConn

\* C25: every registry key is the session id of the connection it maps to
\* and was generated during a handshake; the step that adds a key adds the
\* id just generated, for a request that carried no session id, and no key is
\* a value a client has supplied before it was generated.
C25_KeysAreGeneratedIds ==
    /\ [](\A k \in Uuids :
            transports[k] # NoConn
                => (sessionId[transports[k]] = k /\ k \in 1..minted))
    /\ [][\A k \in Uuids :
            (transports'[k] # transports[k] /\ transports'[k] # NoConn)
                => /\ k = minted + 1
                   /\ minted' = k
                   /\ k \notin ClientSids
                   /\ \A q \in Reqs : req[q].sid # k
                   /\ \E r \in Reqs :
                         /\ req[r].pc = "connecting"
                         /\ req[r].sid = NoSid
                         /\ req[r].conn = transports'[k]]_vars

\* Two sessions are registered under their generated ids while a request
\* carrying an id that was never generated has been rejected.
C25_Witness ==
    /\ \A k \in Uuids : transports[k] # NoConn /\ sessionId[transports[k]] = k
    /\ \E r \in Reqs : req[r].sid = UnknownKey /\ req[r].pc = "done"

\* C23: in external mode every POST overwrites the transient token with its
\* own bearer value (nothing when it has none) and no other step writes or
\* clears it, so the transient token is the bearer value of the POST that
\* arrived last; an acquire, whatever assertion it is given, returns exactly
\* the transient token, or fails when there is none.
ExternalAcquireResult ==
    IF Truthy(externalToken) THEN externalToken ELSE AuthError

C23_TokenIsLastPostBearer ==
    /\ [][mode = "external" =>
            /\ \A r \in Reqs :
                  Arrives(r, {"POST"}) => externalToken' = req'[r].bearer
            /\ externalToken' # externalToken
                  => \E r \in Reqs : Arrives(r, {"POST"})
            /\ \A r \in Reqs :
                  (/\ Dispatching
                   /\ req[r].pc = "handling"
                   /\ req'[r].pc = "handling"
                   /\ req'[r].tok # req[r].tok)
                      => req'[r].tok = ExternalAcquireResult]_vars
    /\ [](mode = "external" =>
            /\ BackendResults(mode, Undefined, externalToken)
                  = {ExternalAcquireResult}
            /\ \A a \in Assertions :
                  tokenProvider(Received("wrapped", a), externalToken)
                      = ExternalAcquireResult
            /\ \A c \in Calls :
                  (call[c].via = "wrapped" /\ call[c].pc # "idle")
                      => call[c].result = ExternalAcquireResult)

\* A POST that carried no bearer value is still being handled while the
\* transient token is "a", the bearer value of a POST that arrived after it.
C23_Witness ==
    /\ mode = "external"
    /\ externalToken = "a"
    /\ \E r, q \in Reqs :
          /\ r < q
          /\ req[r].verb = "POST"
          /\ req[r].pc = "handling"
          /\ req[r].bearer = Undefined
          /\ req[q].verb = "POST"
          /\ req[q].bearer = "a"

\* C22: while a request is suspended in an interactive login, the requests
\* of other sessions do not wait for it: in every such state a pending
\* handshake can be established and registered, a request being handled can
\* finish, and a newly arriving request can be routed to a registered
\* session, start a handshake, or be rejected.
LoginPending == \E r \in Reqs : req[r].pc = "login"

C22_LoginDoesNotBlock ==
    (LoginPending /\ Dispatching) =>
        \A r \in Reqs :
            /\ req[r].pc = "connecting"
                  => ENABLED (ConnectDone(r) /\ transports' # transports)
            /\ req[r].pc = "handling" => ENABLED HandleReturn(r)
            /\ Free(r)
                  => /\ ENABLED (PostArriveLogin(r)
                                   /\ req'[r].outcome = "rej32000")
                     /\ ENABLED (handleSessionRequest(r)
                                   /\ req'[r].outcome = "plain400")
                     /\ (\E k \in Uuids : transports[k] # NoConn)
                           => ENABLED (PostArriveLogin(r)
                                         /\ req'[r].pc = "handling")
                     /\ nextConn < MaxSessions
                           => ENABLED (PostArriveLogin(r)
                                         /\ req'[r].pc = "connecting")

\* While a request is suspended in the login, a handshake that arrived after
\* it has been established and registered on another connection.
C22_Witness ==
    \E r, q \in Reqs :
        /\ r < q
        /\ req[r].pc = "login"
        /\ req[q].pc = "handling"
        /\ req[q].verb = "POST"
        /\ req[q].sid = NoSid
        /\ req[q].conn # req[r].conn
        /\ InRegistry(transports, sessionId[req[q].conn])
====
